---- MODULE Spec2Model ----
(***************************************************************************)
(* MAX7219LedMat (src/src/lib.rs): a framebuffer of one byte per pixel for *)
(* a chain of COUNT 8x8 LED modules, drawn into through DrawTarget and     *)
(* serialised by flush into one SPI write per row.                         *)
(*                                                                         *)
(* Arrays keep the source's 0-based indices: framebuffer, a row's data and *)
(* a transmit buffer are functions on 0..n-1.  wire is the sequence of the *)
(* buffers handed to spi.write by the I/O operation in progress (or the    *)
(* last one), display is what the chain has latched per row register.      *)
(***************************************************************************)
EXTENDS Integers, Sequences, FiniteSets, TLC

VARIABLES
    COUNT,        \* const generic COUNT of the instance
    BUFLEN,       \* const generic BUFLEN of the instance
    framebuffer,  \* [0..BUFLEN-1 -> u8]
    pc,           \* "idle" | "flush" | "init" | "panicked"
    addr,         \* flush: the row whose write is pending
    cmd,          \* init_display: index of the configuration write pending
    wire,         \* buffers passed to spi.write since the last I/O call began
    display,      \* [row 0..7 -> [slot 0..COUNT-1 -> u8]] latched by the chips
    result,       \* "none" | "Ok" | "Comm" | "Cancelled"
    op,           \* last operation called: "new","draw","clear","flush","init"
    hist,         \* "new" | "drawn" | "cleared"
    draws,        \* draw_iter calls so far
    pixels,       \* the stream given to draw_iter (when the run fixes it)
    snap,         \* framebuffer when the last operation was called
    fails,        \* which write of the last I/O call the transport failed, or 0
    stale         \* a flush has ended before its last row was written

vars == <<COUNT, BUFLEN, framebuffer, pc, addr, cmd, wire, display, result,
          op, hist, draws, pixels, snap, fails, stale>>

\* ---- bounds -------------------------------------------------------------
MaxCount == 2    \* instances have COUNT in 1..MaxCount
MaxDraws == 2    \* draw_iter calls in one run of the driver's life
MaxStream == 2   \* pixels in a stream whose every pixel is recorded

\* ---- program constants ----------------------------------------------------
ROWS == 8        \* for addr in 0..8
COLS == 8        \* base..base + 8, disp * 8

\* Command / mode encodings
CmdDecodeMode == 9
CmdIntensity == 10
CmdScanLimit == 11
CmdShutdown == 12
NormalOperation == 1
NoDecode == 0
Display0To7 == 7
Ratio3_32 == 1

\* ---- u8 arithmetic --------------------------------------------------------
RECURSIVE Pow2(_)
Pow2(n) == IF n = 0 THEN 1 ELSE 2 * Pow2(n - 1)

\* v << k on u8: bits shifted past bit 7 are lost
Shl8(v, k) == (v * Pow2(k)) % 256

RECURSIVE BitOr(_, _, _)
BitOr(a, b, n) ==
    IF n = 0 THEN 0
    ELSE (IF a % 2 = 1 \/ b % 2 = 1 THEN 1 ELSE 0)
         + 2 * BitOr(a \div 2, b \div 2, n - 1)

\* a | b on u8
Or8(a, b) == BitOr(a, b, 8)

\* ---- new ------------------------------------------------------------------
\* framebuffer: [0; BUFLEN]
ZeroBuffer(len) == [i \in 0..(len - 1) |-> 0]

\* ---- flush ----------------------------------------------------------------
\* for i in 0..arr.len() { b |= arr[i] << (arr.len() - 1 - i) }
RECURSIVE PackLoop_LsbFirst(_, _, _)
PackLoop_LsbFirst(arr, i, b) ==
    IF i = COLS THEN b
    ELSE PackLoop_LsbFirst(arr, i + 1, Or8(b, Shl8(arr[i], i)))

RECURSIVE PackLoop(_, _, _)
PackLoop(arr, i, b) ==
    IF i = COLS THEN b
    ELSE PackLoop(arr, i + 1, Or8(b, Shl8(arr[i], COLS - 1 - i)))

\* let base = (disp * 8) + (addr * (COUNT * 8))
Base_RowZero(disp, a) == disp * COLS

Base(disp, a) == (disp * COLS) + (a * (COUNT * COLS))

\* &self.framebuffer[base..base + 8] panics unless base + 8 <= BUFLEN
SliceOk(fb, base) == base + COLS <= BUFLEN

\* the closure of .map(|disp| ...): the packed byte of module disp in row a
PackedByte(fb, disp, a) ==
    LET base == Base(disp, a)
        arr == [i \in 0..(COLS - 1) |-> fb[base + i]]
    IN PackLoop(arr, 0, 0)

\* (0..COUNT).rev().map(..).collect(): element j comes from disp = COUNT-1-j
RowData(fb, a) == [j \in 0..(COUNT - 1) |-> PackedByte(fb, COUNT - 1 - j, a)]

\* buffer[2*i] = addr + 1; buffer[2*i + 1] = data[data.len() - 1 - i]
RowBuffer_SingleReversal(fb, a) ==
    LET data == RowData(fb, a)
    IN [k \in 0..(2 * COUNT - 1) |->
          IF k % 2 = 0 THEN a + 1 ELSE data[k \div 2]]

RowBuffer(fb, a) ==
    LET data == RowData(fb, a)
    IN [k \in 0..(2 * COUNT - 1) |->
          IF k % 2 = 0 THEN a + 1 ELSE data[COUNT - 1 - (k \div 2)]]

\* some slice taken while building row a's buffer is out of range
RowPanics(fb, a) == \E disp \in 0..(COUNT - 1) : ~SliceOk(fb, Base(disp, a))

\* the for loop ends after row ROWS - 1
LastRow_Seven(a) == a + 1 = ROWS - 1

LastRow(a) == a + 1 = ROWS


\* ---- the transport and the chain ------------------------------------------
\* A write that succeeds shifts the (register, data) pairs into the chain: the
\* pair in slot s with a row register 1..8 replaces what slot s latched for
\* that row; configuration registers leave the rows alone.
Latch(d, buf) ==
    [r \in 0..(ROWS - 1) |->
        [s \in 0..(COUNT - 1) |->
            IF (2 * s + 1) \in DOMAIN buf /\ buf[2 * s] = r + 1
            THEN buf[2 * s + 1]
            ELSE d[r][s]]]

\* ---- configuration commands -----------------------------------------------
\* let send_array: [u8; 2] = [command as u8, data]
SendArray(command, data) == [k \in 0..1 |-> IF k = 0 THEN command ELSE data]

config_power_mode(mode) ==
    SendArray(CmdShutdown, IF mode = "NormalOperation" THEN NormalOperation ELSE 0)
config_decode_mode(mode) == SendArray(CmdDecodeMode, mode)
config_scan_limit(mode) == SendArray(CmdScanLimit, mode)
config_intensity(mode) == SendArray(CmdIntensity, mode)

\* init_display: the four writes in program order
InitCommands ==
    << config_power_mode("NormalOperation"),
       config_decode_mode(NoDecode),
       config_scan_limit(Display0To7),
       config_intensity(Ratio3_32) >>

\* ---- DrawTarget -------------------------------------------------------------
\* Size::new(COUNT as u32 * 8, 8)
size == [width |-> COUNT * COLS, height |-> ROWS]

\* bb.contains(*pos) for the bounding box at the origin with this size
Contains_Inclusive(p) ==
    /\ p.x >= 0 /\ p.x <= size.width
    /\ p.y >= 0 /\ p.y < size.height

Contains(p) ==
    /\ p.x >= 0 /\ p.x < size.width
    /\ p.y >= 0 /\ p.y < size.height

\* let index: u32 = pos.x as u32 + pos.y as u32 * 8 * (COUNT as u32)
Index_NoCount(p) == p.x + p.y * COLS

Index(p) == p.x + p.y * COLS * COUNT

\* color.is_on() as u8
IsOn(p) == IF p.on THEN 1 ELSE 0

\* filter + for_each over the stream from its k-th pixel on; an index past
\* the framebuffer panics and the pixels before it stay written
RECURSIVE DrawLoop(_, _, _)
DrawLoop(fb, stream, k) ==
    IF k > Len(stream) THEN [fb |-> fb, panicked |-> FALSE]
    ELSE LET p == stream[k]
         IN IF ~Contains(p) THEN DrawLoop(fb, stream, k + 1)
            ELSE IF Index(p) >= BUFLEN THEN [fb |-> fb, panicked |-> TRUE]
            ELSE DrawLoop([fb EXCEPT ![Index(p)] = IsOn(p)], stream, k + 1)

draw_iter(fb, stream) == DrawLoop(fb, stream, 1)

\* ---- clear ------------------------------------------------------------------
\* self.framebuffer = [0; BUFLEN]
clear_FirstModule(fb) == [i \in DOMAIN fb |-> IF i < ROWS * COLS THEN 0 ELSE fb[i]]

clear(fb) == [i \in DOMAIN fb |-> 0]

\* ---- inputs -----------------------------------------------------------------
Pixel(x, y, on) == [x |-> x, y |-> y, on |-> on]

\* every position of the surface and of the ring of width one around it
AllPixels ==
    { Pixel(x, y, on) : x \in (-1)..(COUNT * COLS), y \in (-1)..ROWS,
                        on \in BOOLEAN }

\* the corners of the surface and their outer neighbours
ProbeX == {-1, 0, COUNT * COLS - 1, COUNT * COLS}
ProbeY == {-1, 0, ROWS - 1, ROWS}
ProbePixels == { Pixel(x, y, on) : x \in ProbeX, y \in ProbeY, on \in BOOLEAN }

\* ---- operations -------------------------------------------------------------
Idle == pc = "idle"

\* draw_iter(pixels): synchronous, returns Ok(())
DrawCall(stream) ==
    /\ Idle
    /\ draws < MaxDraws
    /\ LET r == draw_iter(framebuffer, stream)
       IN /\ framebuffer' = r.fb
          /\ pc' = IF r.panicked THEN "panicked" ELSE "idle"
          /\ result' = IF r.panicked THEN "none" ELSE "Ok"
    /\ op' = "draw"
    /\ hist' = "drawn"
    /\ draws' = draws + 1
    /\ snap' = framebuffer
    /\ UNCHANGED <<COUNT, BUFLEN, addr, cmd, wire, display, pixels, fails, stale>>

\* a draw of one pixel chosen by the caller
DrawIter == \E p \in ProbePixels : DrawCall(<<p>>)

\* the draw of the stream the run was started with
DrawPixels == draws = 0 /\ pixels # <<>> /\ DrawCall(pixels)

Clear ==
    /\ Idle
    /\ framebuffer' = clear(framebuffer)
    /\ op' = "clear"
    /\ result' = "none"
    /\ hist' = IF hist = "drawn" THEN "cleared" ELSE hist
    /\ snap' = framebuffer
    /\ UNCHANGED <<COUNT, BUFLEN, pc, addr, cmd, wire, display, draws, pixels,
                   fails, stale>>

\* flush up to its first await: row 0's buffer is built and its write issued
FlushCall ==
    /\ Idle
    /\ op' = "flush"
    /\ snap' = framebuffer
    /\ result' = "none"
    /\ addr' = 0
    /\ IF RowPanics(framebuffer, 0)
       THEN pc' = "panicked" /\ wire' = <<>>
       ELSE pc' = "flush" /\ wire' = <<RowBuffer(framebuffer, 0)>>
    /\ fails' = 0
    /\ UNCHANGED <<COUNT, BUFLEN, framebuffer, cmd, display, hist, draws, pixels,
                   stale>>

\* the pending row write completes; the loop goes on to the next await
FlushSendOk ==
    /\ pc = "flush"
    /\ display' = Latch(display, wire[Len(wire)])
    /\ IF LastRow(addr)
       THEN /\ pc' = "idle" /\ result' = "Ok" /\ addr' = 0
            /\ UNCHANGED wire
       ELSE IF RowPanics(framebuffer, addr + 1)
       THEN /\ pc' = "panicked" /\ addr' = 0
            /\ UNCHANGED <<wire, result>>
       ELSE /\ addr' = addr + 1
            /\ wire' = Append(wire, RowBuffer(framebuffer, addr + 1))
            /\ UNCHANGED <<pc, result>>
    /\ UNCHANGED <<COUNT, BUFLEN, framebuffer, cmd, op, hist, draws, pixels, snap,
                   fails, stale>>

\* the pending row write fails: `?` returns Err(Error::Comm(e))
FlushSendFail_Continue ==
    /\ pc = "flush"
    /\ IF LastRow(addr)
       THEN /\ pc' = "idle" /\ result' = "Comm" /\ addr' = 0
            /\ UNCHANGED wire
       ELSE /\ addr' = addr + 1
            /\ wire' = Append(wire, RowBuffer(framebuffer, addr + 1))
            /\ UNCHANGED <<pc, result>>
    /\ fails' = Len(wire)
    /\ stale' = TRUE
    /\ UNCHANGED <<COUNT, BUFLEN, framebuffer, cmd, display, op, hist, draws,
                   pixels, snap>>

FlushSendFail ==
    /\ pc = "flush"
    /\ pc' = "idle"
    /\ result' = "Comm"
    /\ addr' = 0
    /\ fails' = Len(wire)
    /\ stale' = TRUE
    /\ UNCHANGED <<COUNT, BUFLEN, framebuffer, cmd, wire, display, op, hist,
                   draws, pixels, snap>>

\* init_display up to its first await
InitCall ==
    /\ Idle
    /\ op' = "init"
    /\ snap' = framebuffer
    /\ result' = "none"
    /\ pc' = "init"
    /\ cmd' = 1
    /\ wire' = <<InitCommands[1]>>
    /\ fails' = 0
    /\ UNCHANGED <<COUNT, BUFLEN, framebuffer, addr, display, hist, draws, pixels,
                   stale>>

\* the pending configuration write completes
InitSendOk ==
    /\ pc = "init"
    /\ display' = Latch(display, wire[Len(wire)])
    /\ IF cmd = Len(InitCommands)
       THEN /\ pc' = "idle" /\ result' = "Ok" /\ cmd' = 0
            /\ UNCHANGED wire
       ELSE /\ cmd' = cmd + 1
            /\ wire' = Append(wire, InitCommands[cmd + 1])
            /\ UNCHANGED <<pc, result>>
    /\ UNCHANGED <<COUNT, BUFLEN, framebuffer, addr, op, hist, draws, pixels, snap,
                   fails, stale>>

\* the pending configuration write fails: `?` (or the tail call) returns it
InitSendFail_Continue ==
    /\ pc = "init"
    /\ IF cmd = Len(InitCommands)
       THEN /\ pc' = "idle" /\ result' = "Comm" /\ cmd' = 0
            /\ UNCHANGED wire
       ELSE /\ cmd' = cmd + 1
            /\ wire' = Append(wire, InitCommands[cmd + 1])
            /\ UNCHANGED <<pc, result>>
    /\ fails' = Len(wire)
    /\ UNCHANGED <<COUNT, BUFLEN, framebuffer, addr, display, op, hist, draws,
                   pixels, snap, stale>>

InitSendFail ==
    /\ pc = "init"
    /\ pc' = "idle"
    /\ result' = "Comm"
    /\ cmd' = 0
    /\ fails' = Len(wire)
    /\ UNCHANGED <<COUNT, BUFLEN, framebuffer, addr, wire, display, op, hist,
                   draws, pixels, snap, stale>>

\* the caller drops the future while a write is pending
Cancel ==
    /\ pc \in {"flush", "init"}
    /\ pc' = "idle"
    /\ result' = "Cancelled"
    /\ addr' = 0
    /\ cmd' = 0
    /\ stale' = (stale \/ pc = "flush")
    /\ UNCHANGED <<COUNT, BUFLEN, framebuffer, wire, display, op, hist, draws,
                   pixels, snap, fails>>

\* ---- specifications ---------------------------------------------------------
\* MAX7219LedMat::<SPI, BUFLEN, COUNT>::new(spi)
New(buflen, count) ==
    /\ COUNT = count
    /\ BUFLEN = buflen
    /\ framebuffer = ZeroBuffer(buflen)
    /\ pc = "idle"
    /\ addr = 0
    /\ cmd = 0
    /\ wire = <<>>
    /\ display = [r \in 0..(ROWS - 1) |-> [s \in 0..(count - 1) |-> 0]]
    /\ result = "none"
    /\ op = "new"
    /\ hist = "new"
    /\ draws = 0
    /\ snap = ZeroBuffer(buflen)
    /\ fails = 0
    /\ stale = FALSE

\* instances as the example declares them: MAX7219LedMat<_, 256, 4>
Init ==
    /\ \E n \in 1..MaxCount : New(ROWS * COLS * n, n)
    /\ pixels = <<>>

Next ==
    \/ DrawIter
    \/ Clear
    \/ FlushCall
    \/ FlushSendOk
    \/ FlushSendFail
    \/ InitCall
    \/ InitSendOk
    \/ InitSendFail
    \/ Cancel

Spec == Init /\ [][Next]_vars

\* ---- one recorded pixel, then flush ------------------------------------------
\* The run starts with the single pixel it will draw, anywhere on the surface
\* or on the ring around it.
InitPack ==
    /\ \E n \in 1..MaxCount : New(ROWS * COLS * n, n)
    /\ pixels \in { <<p>> : p \in AllPixels }

NextPack ==
    \/ DrawPixels
    \/ FlushCall
    \/ FlushSendOk

SpecPack == InitPack /\ [][NextPack]_vars

\* ---- one recorded stream ------------------------------------------------------
\* The pixels that follow the head of a stream hit the head's position again,
\* the last cell of the surface, or the position just below the first column.
TailPixels(h) ==
    { Pixel(h.x, h.y, on) : on \in BOOLEAN }
    \cup { Pixel(COUNT * COLS - 1, ROWS - 1, on) : on \in BOOLEAN }
    \cup { Pixel(0, ROWS, on) : on \in BOOLEAN }

RECURSIVE Tails(_, _)
Tails(h, n) ==
    IF n = 0 THEN { <<>> }
    ELSE { <<>> } \cup { <<q>> \o t : q \in TailPixels(h), t \in Tails(h, n - 1) }

Streams == UNION { { <<h>> \o t : t \in Tails(h, MaxStream - 1) } : h \in AllPixels }

InitDraw ==
    /\ \E n \in 1..MaxCount : New(ROWS * COLS * n, n)
    /\ pixels \in Streams

NextDraw == DrawPixels

SpecDraw == InitDraw /\ [][NextDraw]_vars

\* ---- every instantiation of the generics ---------------------------------------
\* BUFLEN and COUNT are independent const parameters; new() takes any pair.
InitGenerics ==
    /\ \E count \in 0..MaxCount :
       \E buflen \in { ROWS * COLS * c : c \in 0..MaxCount } \cup { COLS } :
          New(buflen, count)
    /\ pixels = <<>>

SpecGenerics == InitGenerics /\ [][Next]_vars

\* ============================================================================
\* Properties
\* ============================================================================
\* flush has returned Ok(())
FlushDone == op = "flush" /\ pc = "idle" /\ result = "Ok"

\* the positions of the surface whose cell is not 0
OnPixels ==
    { q \in (0..(8 * COUNT - 1)) \X (0..7) : framebuffer[q[1] + q[2] * 8 * COUNT] # 0 }

\* (x, y) is the only pixel that is on
OnlyOn(x, y) ==
    /\ OnPixels = { <<x, y>> }
    /\ framebuffer[x + y * 8 * COUNT] = 1

\* the data byte in slot s of the transmission for row a
DataByte(a, s) == wire[a + 1][2 * s + 1]

\* ---- C1 ---------------------------------------------------------------------
\* C1 (as stated): with COUNT = 2 and the only pixel that is on in module 0
\* (x in 0..7, row r), the transmission for row r has its non-zero byte at
\* index 3 and 0 at index 1.
C1_ReversedOrder ==
    (FlushDone /\ COUNT = 2) =>
        \A x \in 0..7, r \in 0..7 :
            OnlyOn(x, r) => (wire[r + 1][3] # 0 /\ wire[r + 1][1] = 0)

\* C1 (amended): with COUNT = 2 and the only pixel that is on in module 0,
\* the transmission for row r has its non-zero byte at index 1, the first
\* data slot, and 0 at index 3: the two reversals of flush cancel and the
\* data bytes go out in module order.
C1_ModuleOrder ==
    (FlushDone /\ COUNT = 2) =>
        \A x \in 0..7, r \in 0..7 :
            OnlyOn(x, r) => (wire[r + 1][1] # 0 /\ wire[r + 1][3] = 0)

C1_Witness == FlushDone /\ COUNT = 2 /\ OnlyOn(3, 5)

\* ---- C2 ---------------------------------------------------------------------
\* C2: a flush whose writes all succeed has issued exactly 8 transmissions, row
\* addr being the (addr+1)-th; each is 2*COUNT bytes long and each of its
\* even-indexed bytes is addr + 1.  While the flush runs, the rows written so
\* far are 0..addr in that order.
C2_EightFrames ==
    (op = "flush" /\ pc \in {"flush", "idle"}) =>
        /\ Len(wire) <= 8
        /\ FlushDone => Len(wire) = 8
        /\ pc = "flush" => Len(wire) = addr + 1
        /\ \A k \in 1..Len(wire) :
              /\ DOMAIN wire[k] = 0..(2 * COUNT - 1)
              /\ \A i \in 0..(COUNT - 1) : wire[k][2 * i] = k

C2_Witness == FlushDone /\ COUNT = 2 /\ Cardinality(OnPixels) = 2

\* ---- C3 ---------------------------------------------------------------------
\* C3: when pixel (8*m + c, r) is the only one that is on, a completed flush has
\* sent, for row r, exactly one non-zero data byte, of value 2^(7-c), and for
\* every other row only zero data bytes.
C3_MsbFirst ==
    FlushDone =>
        \A q \in OnPixels :
            OnlyOn(q[1], q[2]) =>
                LET c == q[1] % 8
                    r == q[2]
                IN /\ Cardinality({ s \in 0..(COUNT - 1) : DataByte(r, s) # 0 }) = 1
                   /\ \A s \in 0..(COUNT - 1) : DataByte(r, s) \in {0, Pow2(7 - c)}
                   /\ \A a \in (0..7) \ {r} :
                         \A s \in 0..(COUNT - 1) : DataByte(a, s) = 0

C3_Witness == FlushDone /\ COUNT = 2 /\ OnlyOn(10, 6) /\ DataByte(6, 1) = 32

\* ---- C4 ---------------------------------------------------------------------
\* the four commands of C4, in its order
C4_Commands == << <<12, 1>>, <<9, 0>>, <<11, 7>>, <<10, 1>> >>

\* C4: the writes of init_display are, in order, a prefix of (0x0C,0x01),
\* (0x09,0x00), (0x0B,0x07), (0x0A,0x01); when the k-th write fails the call
\* has returned Comm with exactly k writes attempted, and it returns Ok only
\* after all four.
C4_InitOrder ==
    op = "init" =>
        /\ Len(wire) <= 4
        /\ \A k \in 1..Len(wire) :
              /\ DOMAIN wire[k] = 0..1
              /\ <<wire[k][0], wire[k][1]>> = C4_Commands[k]
        /\ pc = "init" => (fails = 0 /\ Len(wire) = cmd)
        /\ fails # 0 => (pc = "idle" /\ result = "Comm" /\ Len(wire) = fails)
        /\ result = "Comm" => fails \in 1..4
        /\ (pc = "idle" /\ result = "Ok") => (Len(wire) = 4 /\ fails = 0)

C4_Witness == op = "init" /\ fails = 2 /\ result = "Comm" /\ Len(wire) = 2

\* ---- C5 ---------------------------------------------------------------------
\* C5: when the k-th row write of a flush fails, the flush has returned Comm
\* with exactly k writes attempted; and whatever the flush's state (pending,
\* done, failed, dropped), the framebuffer is what it was when flush was called.
C5_FlushFailure ==
    op = "flush" =>
        /\ framebuffer = snap
        /\ fails # 0 => (pc = "idle" /\ result = "Comm" /\ Len(wire) = fails)
        /\ result = "Comm" => fails \in 1..8

C5_Witness ==
    /\ op = "flush" /\ fails = 3 /\ result = "Comm"
    /\ OnPixels # {}

\* ---- C6 ---------------------------------------------------------------------
\* the cells of module m in row r, packed with the leftmost cell in bit 7
RECURSIVE MsbSum(_, _, _)
MsbSum(r, m, c) ==
    IF c = 8 THEN 0
    ELSE framebuffer[(8 * m + c) + r * 8 * COUNT] * Pow2(7 - c) + MsbSum(r, m, c + 1)

\* C6: once a flush has returned Ok, the byte the chain holds for every row
\* and module is the MSB-first packing of the framebuffer's cells for that row
\* and module, whatever draws, clears and failed or dropped flushes came before.
C6_Resynchronized ==
    FlushDone =>
        \A r \in 0..7, m \in 0..(COUNT - 1) : display[r][m] = MsbSum(r, m, 0)

C6_Witness == FlushDone /\ stale /\ COUNT = 2 /\ OnPixels # {} /\ hist = "drawn"

\* ---- C7 ---------------------------------------------------------------------
\* outside [0, 8*COUNT) x [0, 8)
Outside(p) == p.x < 0 \/ p.x >= 8 * COUNT \/ p.y < 0 \/ p.y >= 8

\* C7: a draw whose pixels all lie outside the bounding box leaves every cell as
\* it was and returns Ok.
C7_OutsideIgnored ==
    (op = "draw" /\ \A k \in 1..Len(pixels) : Outside(pixels[k])) =>
        /\ framebuffer = snap
        /\ pc = "idle"
        /\ result = "Ok"

C7_Witness ==
    /\ op = "draw" /\ Len(pixels) = 2
    /\ pixels[1] = Pixel(8 * COUNT, 0, TRUE)
    /\ Outside(pixels[2]) /\ pixels[2].on

\* ---- C8 ---------------------------------------------------------------------
\* the pixels of the stream that lie inside the box and map to cell i
Hits(i) ==
    { k \in 1..Len(pixels) :
        ~Outside(pixels[k]) /\ pixels[k].x + pixels[k].y * 8 * COUNT = i }

SetMax(S) == CHOOSE k \in S : \A j \in S : j <= k

\* C8: after a draw, the cell at x + y*8*COUNT of every in-box pixel (x, y, v) of
\* the stream holds the v of the last such pixel in stream order (1 for on, 0
\* for off), every other cell is as before, and the draw returned Ok.
C8_PixelWritten ==
    op = "draw" =>
        /\ pc = "idle" /\ result = "Ok"
        /\ \A i \in 0..(BUFLEN - 1) :
              framebuffer[i] =
                  IF Hits(i) = {} THEN snap[i]
                  ELSE IF pixels[SetMax(Hits(i))].on THEN 1 ELSE 0

C8_Witness ==
    /\ op = "draw" /\ COUNT = 2 /\ Len(pixels) = 2
    /\ pixels[1] = Pixel(9, 3, TRUE) /\ pixels[2] = Pixel(9, 3, FALSE)
    /\ framebuffer[9 + 3 * 16] = 0

\* ---- C9 ---------------------------------------------------------------------
\* what flush transmits on a driver just constructed
FreshFlush == [k \in 1..8 |-> RowBuffer(ZeroBuffer(BUFLEN), k - 1)]

\* C9: clear leaves every cell 0 and writes nothing to the transport, and a
\* flush completed after pixel draws followed by clear has transmitted exactly
\* what the flush of a fresh driver transmits.
C9_ClearRoundTrip ==
    /\ [](op = "clear" => \A i \in 0..(BUFLEN - 1) : framebuffer[i] = 0)
    /\ []((FlushDone /\ hist = "cleared") => wire = FreshFlush)
    /\ [][op' = "clear" => (wire' = wire /\ display' = display)]_vars

C9_Witness == FlushDone /\ hist = "cleared" /\ COUNT = 2 /\ draws = 2

\* ---- C10 --------------------------------------------------------------------
\* C10: every constructed driver has BUFLEN = 8 * 8 * COUNT and COUNT >= 1, so
\* that no index of flush or of an in-box pixel write falls outside the
\* framebuffer.
C10_WellFormed ==
    /\ BUFLEN = 8 * 8 * COUNT
    /\ COUNT >= 1
    /\ pc # "panicked"

====
